---- MODULE Spec2Model ----
(***************************************************************************)
(* Model of the line-layout engine of slide_generator/src/main.rs:         *)
(* add_single_span (the single-fragment placer) and draw_text_block (the   *)
(* two-pass line layout), together with the calls main makes on the pages  *)
(* of all_pages_ops.                                                       *)
(*                                                                         *)
(* Numbers.  The code computes in f32.  The model computes in fixed point: *)
(* a value v is the integer 100 * v (One stands for 1.0).  Every input of  *)
(* the model is a multiple of 0.1, so every product, sum and halving the   *)
(* code performs is exact in this representation; what the model says      *)
(* about a value is said up to f32 rounding of the same expression.        *)
(***************************************************************************)
EXTENDS Integers, Sequences, FiniteSets, TLC

VARIABLES fonts, config, all_pages_ops, frame

vars == <<fonts, config, all_pages_ops, frame>>

\* 1.0 in fixed point (the literal of `let mut max_font_size_ratio = 1.0`).
One == 100

\* Longest content sequence handed to one draw_text_block call.
MaxLen == 3

\* Number of draw_text_block calls main makes on one page.
CallsPerPage == 2

\* Number of pages main pushes on all_pages_ops.
NumPages == 2

----------------------------------------------------------------------------
\* f32 arithmetic in fixed point

\* a * b for two fixed-point values
Mul(a, b) == (a * b) \div One

\* x / 2.0
Half(x) == x \div 2

RECURSIVE SumSeq(_)
SumSeq(s) == IF s = <<>> THEN 0 ELSE Head(s) + SumSeq(Tail(s))

----------------------------------------------------------------------------
\* Types of the program

FontStyle == {"Regular", "Bold"}

VAlign == {"Top", "Middle", "Bottom"}

Named(n) == [tag |-> "Named", name |-> n]

Custom(r, g, b) == [tag |-> "Custom", r |-> r, g |-> g, b |-> b]

\* SlideColor::into_pdf_color: the Rgb triple of a colour
into_pdf_color(c) ==
    IF c.tag = "Named"
    THEN CASE c.name = "Black" -> <<0, 0, 0>>
           [] c.name = "White" -> <<One, One, One>>
           [] c.name = "Red"   -> <<80, 0, 0>>
           [] c.name = "Green" -> <<0, 80, 0>>
           [] c.name = "Blue"  -> <<0, 0, 80>>
    ELSE <<c.r, c.g, c.b>>

\* A text is the sequence of its characters, each character given by the
\* number of bytes of its UTF-8 encoding ("AB" is <<1, 1>>, one kana <<3>>).
TextSpan(t, st, ratio, c) ==
    [kind |-> "Span", text |-> t, style |-> st, size_ratio |-> ratio, color |-> c]

Newline == [kind |-> "Newline"]

\* span.text.chars().count()
CharCount(t) == Len(t)

\* span.text.len(): the byte length of the text
ByteLen(t) == SumSeq(t)

\* The FontId doc.add_font returns for the font loaded for a style
FontIdOf(st) == IF st = "Regular" THEN "FontId_1" ELSE "FontId_2"

\* The config main builds: base font size 24pt, page height 18 * 24pt
MainConfig ==
    [page_height_pt |-> Mul(18 * One, 24 * One),
     base_font_size |-> 24 * One,
     default_font_style |-> "Regular",
     default_color |-> Named("Black")]

\* The fonts mapping main builds (both styles), and one a caller builds that
\* registers Regular alone.
FontMaps ==
    { [st \in FontStyle |-> FontIdOf(st)],
      [st \in {"Regular"} |-> FontIdOf(st)] }

----------------------------------------------------------------------------
\* add_single_span

\* fonts.get(&span.style) is Some
StyleLoaded(span) == span.style \in DOMAIN fonts

\* base_font_size * size_ratio
FinalFontSize(cfg, span) == Mul(cfg.base_font_size, span.size_ratio)

\* x of the text cursor
CursorX(cfg, col) == Mul(col, cfg.base_font_size)

\* The cursor left at the top edge of the text box
BaselineY_TopEdge(cfg, span, row) == cfg.page_height_pt - Mul(row, cfg.base_font_size)

\* y of the text cursor: page height - row in points - font size
BaselineY(cfg, span, row) ==
    (cfg.page_height_pt - Mul(row, cfg.base_font_size)) - FinalFontSize(cfg, span)

\* The vector new_ops add_single_span builds, for a span whose style has
\* the font font_id
NewOps(cfg, font_id, span, col, row) ==
    << [op |-> "StartTextSection"],
       [op |-> "SetFillColor", col |-> into_pdf_color(span.color)],
       [op |-> "SetTextCursor", x |-> CursorX(cfg, col), y |-> BaselineY(cfg, span, row)],
       [op |-> "SetFontSize", size |-> FinalFontSize(cfg, span), font |-> font_id],
       [op |-> "WriteText", text |-> span.text, font |-> font_id],
       [op |-> "EndTextSection"] >>

\* ops with new_ops put in its place
extend_Overwrite(ops, new_ops) == new_ops

\* ops.extend(new_ops)
extend(ops, new_ops) == ops \o new_ops

\* Number of Ops one add_single_span call appends
GroupLen == Len(NewOps(MainConfig, FontIdOf("Regular"), TextSpan(<<>>, "Regular", One, Named("Black")), 0, 0))

----------------------------------------------------------------------------
\* Inputs of draw_text_block

\* The Spans content sequences are built from: both styles, size ratios
\* below, at and above 1.0, one-byte and multi-byte characters.
SpanPool ==
    { TextSpan(<<1, 1>>, "Regular", One, Named("Black")),
      TextSpan(<<3>>, "Bold", 2 * One, Named("Black")),
      TextSpan(<<1, 3>>, "Regular", One \div 2, Named("Red")),
      TextSpan(<<3, 3, 1>>, "Regular", 2 * One, Custom(One, 50, 0)),
      TextSpan(<<1>>, "Bold", (3 * One) \div 2, Named("Blue")) }

Content == SpanPool \cup {Newline}

\* All content sequences of at most n items
ContentSeqs(n) == UNION { [1..m -> Content] : m \in 0..n }

Block(c, col, row, ls, al) ==
    [contents |-> c, start_col |-> col, start_row |-> row,
     line_spacing_ratio |-> ls, align |-> al]

\* Arguments of one call: any content sequence, started at (0, 0) or (2, 2),
\* with line spacing 1.0 or 1.2, under every alignment
Blocks ==
    { Block(c, st[1], st[2], ls, al) :
        c \in ContentSeqs(MaxLen),
        st \in {<<0, 0>>, <<2 * One, 2 * One>>},
        ls \in {One, (12 * One) \div 10},
        al \in VAlign }

\* The arguments of main's title call, over any content sequence
TitleBlocks ==
    { Block(c, 2 * One, 2 * One, (12 * One) \div 10, "Bottom") : c \in ContentSeqs(MaxLen) }

\* The blocks main draws: a page's title and body, and a mixed-size line
title_span == TextSpan(<<3, 3, 3, 3, 3, 1, 1>>, "Bold", 2 * One, Named("Black"))

body_span1 == TextSpan(<<3, 3, 3, 1, 3>>, "Regular", One, Named("Black"))

body_span2 == TextSpan(<<3, 3, 1, 1, 1>>, "Regular", One, Named("Black"))

page_title == Block(<<title_span>>, 2 * One, 2 * One, (12 * One) \div 10, "Bottom")

page_body ==
    Block(<<body_span1, Newline, body_span2>>, 2 * One, 5 * One, (15 * One) \div 10, "Top")

page_note ==
    Block(<<body_span2, title_span, Newline, Newline>>, 0, 8 * One, One, "Middle")

MainBlocks == {page_title, page_body, page_note}

----------------------------------------------------------------------------
\* State

\* The frame of a page on which draw_text_block has not been called.  Two
\* fields are history, not locals of the code: ops0, the ops of the page when
\* the current call began, and advances, the number of times the current
\* call has executed current_row += ...
IdleFrame ==
    [pc |-> "idle", calls |-> 0, ops0 |-> <<>>, advances |-> 0,
     contents |-> <<>>, start_col |-> 0, start_row |-> 0,
     line_spacing_ratio |-> One, align |-> "Top",
     current_row |-> 0, current_content_index |-> 0,
     spans_in_line |-> <<>>, line_end_index |-> 0,
     max_font_size_ratio |-> One, i |-> 0,
     current_col |-> 0, next_span |-> 1]

\* The ops a page holds when a caller has already drawn a one-line body on it
PriorOps == NewOps(MainConfig, FontIdOf("Regular"), body_span1, 2 * One, 5 * One)

\* One page, empty or already holding the instructions of an earlier block
Init ==
    /\ fonts \in FontMaps
    /\ config = MainConfig
    /\ all_pages_ops \in { <<prior>> : prior \in {<<>>, PriorOps} }
    /\ frame = << [IdleFrame EXCEPT !.ops0 = all_pages_ops[1]] >>

\* The pages of main, all empty
InitPages ==
    /\ fonts \in FontMaps
    /\ config = MainConfig
    /\ all_pages_ops = [p \in 1..NumPages |-> <<>>]
    /\ frame = [p \in 1..NumPages |-> IdleFrame]

Pages == DOMAIN all_pages_ops

----------------------------------------------------------------------------
\* draw_text_block

\* current_row kept in one cursor that every call shares: a call that
\* begins while another page's cursor is live starts from that cursor
CallRow_Shared(p, start_row) ==
    IF \E q \in Pages : q # p /\ frame[q].pc # "idle"
    THEN frame[CHOOSE q \in Pages : q # p /\ frame[q].pc # "idle"].current_row
    ELSE start_row

\* let mut current_row = start_row
CallRow(p, start_row) == start_row

\* The measuring pass started from 0.0
InitialMaxRatio_Zero == 0 * One

\* let mut max_font_size_ratio = 1.0
InitialMaxRatio == One

\* max_font_size_ratio declared outside the line loop: a line starts from
\* the ratio the line before it left
LineStartMax_Carried(f) == f.max_font_size_ratio

\* The value max_font_size_ratio has when the measuring pass of a line begins
LineStartMax(f) == InitialMaxRatio

\* The Newline left unconsumed
LineEndAtNewline_Unconsumed(i) == i

\* line_end_index = i + 1 on a Newline
LineEndAtNewline(i) == i + 1

\* let mut current_col = start_col
LineStartCol(f) == f.start_col

\* y_offset with the halving of Middle left out
y_offset_NoHalf(align, max_font_size_ratio, size_ratio) ==
    IF align = "Top" THEN 0 ELSE max_font_size_ratio - size_ratio

\* y_offset with the operands of the subtractions exchanged
y_offset_Flipped(align, max_font_size_ratio, size_ratio) ==
    CASE align = "Top"    -> 0
      [] align = "Middle" -> Half(size_ratio - max_font_size_ratio)
      [] align = "Bottom" -> size_ratio - max_font_size_ratio

\* The match on align that gives y_offset
y_offset(align, max_font_size_ratio, size_ratio) ==
    CASE align = "Top"    -> 0
      [] align = "Middle" -> Half(max_font_size_ratio - size_ratio)
      [] align = "Bottom" -> max_font_size_ratio - size_ratio

\* The column advance taken from the byte length of the text
ColAdvance_Bytes(span) == ByteLen(span.text) * span.size_ratio

\* span.text.chars().count() as f32 * span.size_ratio
ColAdvance(span) == CharCount(span.text) * span.size_ratio

\* The row advance without the dominant ratio of the line
RowAdvance_SpacingOnly(f) == f.line_spacing_ratio

\* max_font_size_ratio * line_spacing_ratio
RowAdvance(f) == Mul(f.max_font_size_ratio, f.line_spacing_ratio)

\* The ratio the measuring pass keeps after a Span
MeasuredMax(max_font_size_ratio, span) ==
    IF span.size_ratio > max_font_size_ratio THEN span.size_ratio ELSE max_font_size_ratio

\* A call on page p with arguments drawn from bs; limit bounds the calls
\* made on one page
Call(p, bs, limit) ==
    /\ frame[p].pc \in {"idle", "done"}
    /\ frame[p].calls < limit
    /\ \E b \in bs :
         frame' = [frame EXCEPT ![p] =
            [@ EXCEPT !.pc = "loop", !.calls = @ + 1,
                      !.ops0 = all_pages_ops[p], !.advances = 0,
                      !.contents = b.contents,
                      !.start_col = b.start_col, !.start_row = b.start_row,
                      !.line_spacing_ratio = b.line_spacing_ratio, !.align = b.align,
                      !.current_row = CallRow(p, b.start_row),
                      !.current_content_index = 0]]
    /\ UNCHANGED <<fonts, config, all_pages_ops>>

\* while current_content_index < contents.len(): enter the line, or return
LoopTest(p) ==
    /\ frame[p].pc = "loop"
    /\ LET f == frame[p]
       IN frame' = [frame EXCEPT ![p] =
            IF f.current_content_index < Len(f.contents)
            THEN [f EXCEPT !.pc = "measure",
                           !.spans_in_line = <<>>,
                           !.line_end_index = f.current_content_index,
                           !.max_font_size_ratio = LineStartMax(f),
                           !.i = f.current_content_index]
            ELSE [f EXCEPT !.pc = "done"]]
    /\ UNCHANGED <<fonts, config, all_pages_ops>>

\* One iteration of for i in current_content_index..contents.len(), or its end
MeasureStep(p) ==
    /\ frame[p].pc = "measure"
    /\ LET f == frame[p]
           item == f.contents[f.i + 1]
       IN frame' = [frame EXCEPT ![p] =
            IF f.i >= Len(f.contents)
            THEN [f EXCEPT !.pc = "place", !.current_col = LineStartCol(f), !.next_span = 1]
            ELSE IF item.kind = "Span"
            THEN [f EXCEPT !.spans_in_line = Append(@, item),
                           !.max_font_size_ratio = MeasuredMax(@, item),
                           !.line_end_index = f.i + 1,
                           !.i = f.i + 1]
            ELSE [f EXCEPT !.line_end_index = LineEndAtNewline(f.i),
                           !.pc = "place", !.current_col = LineStartCol(f),
                           !.next_span = 1]]
    /\ UNCHANGED <<fonts, config, all_pages_ops>>

\* The grid row draw_text_block passes to add_single_span for a span
PlaceRow(f, span) ==
    f.current_row + y_offset(f.align, f.max_font_size_ratio, span.size_ratio)

\* One iteration of for span in spans_in_line, the style of the span loaded
PlaceSpan(p) ==
    /\ frame[p].pc = "place"
    /\ frame[p].next_span <= Len(frame[p].spans_in_line)
    /\ LET f == frame[p]
           span == f.spans_in_line[f.next_span]
       IN /\ StyleLoaded(span)
          /\ all_pages_ops' = [all_pages_ops EXCEPT ![p] =
                extend(@, NewOps(config, fonts[span.style], span, f.current_col, PlaceRow(f, span)))]
          /\ frame' = [frame EXCEPT ![p] =
                [f EXCEPT !.current_col = @ + ColAdvance(span),
                          !.next_span = @ + 1]]
    /\ UNCHANGED <<fonts, config>>

\* The same iteration when fonts.get(&span.style) is None: expect panics
\* before new_ops is built, and the ops extended so far stay in the vector.
\* The call never resumes; calls on other pages are left free to go on, as
\* they would on other threads.
Panic(p) ==
    /\ frame[p].pc = "place"
    /\ frame[p].next_span <= Len(frame[p].spans_in_line)
    /\ ~StyleLoaded(frame[p].spans_in_line[frame[p].next_span])
    /\ frame' = [frame EXCEPT ![p] = [@ EXCEPT !.pc = "panicked"]]
    /\ UNCHANGED <<fonts, config, all_pages_ops>>

\* current_row += ...; current_content_index = line_end_index
LineAdvance(p) ==
    /\ frame[p].pc = "place"
    /\ frame[p].next_span > Len(frame[p].spans_in_line)
    /\ frame' = [frame EXCEPT ![p] =
          [@ EXCEPT !.pc = "loop", !.advances = @ + 1,
                    !.current_row = @ + RowAdvance(frame[p]),
                    !.current_content_index = frame[p].line_end_index]]
    /\ UNCHANGED <<fonts, config, all_pages_ops>>

\* One draw_text_block call on one page
Next ==
    \/ \E p \in Pages : Call(p, Blocks, 1)
    \/ \E p \in Pages : LoopTest(p)
    \/ \E p \in Pages : MeasureStep(p)
    \/ \E p \in Pages : PlaceSpan(p)
    \/ \E p \in Pages : Panic(p)
    \/ \E p \in Pages : LineAdvance(p)

Spec == Init /\ [][Next]_vars

\* The calls of main, the pages laid out in any interleaving
NextPages ==
    \/ \E p \in Pages : Call(p, MainBlocks, CallsPerPage)
    \/ \E p \in Pages : LoopTest(p)
    \/ \E p \in Pages : MeasureStep(p)
    \/ \E p \in Pages : PlaceSpan(p)
    \/ \E p \in Pages : Panic(p)
    \/ \E p \in Pages : LineAdvance(p)

SpecPages == InitPages /\ [][NextPages]_vars

\* One call as main makes its first (start (2, 2), line spacing 1.2, Bottom),
\* over any content sequence; the code runs, so a call that can take a step
\* takes it
NextFair ==
    \/ \E p \in Pages : Call(p, TitleBlocks, 1)
    \/ \E p \in Pages : LoopTest(p)
    \/ \E p \in Pages : MeasureStep(p)
    \/ \E p \in Pages : PlaceSpan(p)
    \/ \E p \in Pages : Panic(p)
    \/ \E p \in Pages : LineAdvance(p)

SpecFair == Init /\ [][NextFair]_vars /\ WF_vars(NextFair)

----------------------------------------------------------------------------
\* What the layout of a block is, stated over its content sequence
\* (positions count from 1; lines count from 0)

MaxOf(S) == CHOOSE x \in S : \A y \in S : y <= x

\* Number of Newline items among the first n items of c
NewlineCount(c, n) == Cardinality({m \in 1..n : c[m].kind = "Newline"})

\* Number of Spans among the first n items of c
SpanCount(c, n) == Cardinality({m \in 1..n : c[m].kind = "Span"})

\* The line the item at position n belongs to
LineOf(c, n) == NewlineCount(c, n - 1)

\* Positions of the Spans of line k
SpansOfLine(c, k) == {n \in 1..Len(c) : c[n].kind = "Span" /\ LineOf(c, n) = k}

\* The dominant ratio of line k alone, with its floor of 1.0
DominantRatio(c, k) == MaxOf({One} \cup {c[n].size_ratio : n \in SpansOfLine(c, k)})

\* Number of lines: one per Newline, and one more when the last item is a Span
LineCount(c) ==
    NewlineCount(c, Len(c)) + (IF c # <<>> /\ c[Len(c)].kind = "Span" THEN 1 ELSE 0)

\* Lines closed once the first n items are consumed
LinesClosed(c, n) ==
    NewlineCount(c, n) + (IF n > 0 /\ c[n].kind = "Span" THEN 1 ELSE 0)

\* Row at which line k is laid out
RECURSIVE LineRow(_, _)
LineRow(b, k) ==
    IF k = 0 THEN b.start_row
    ELSE LineRow(b, k - 1)
           + (DominantRatio(b.contents, k - 1) * b.line_spacing_ratio) \div One

\* Column at which the Span at position n is placed
RECURSIVE WidthBefore(_, _)
WidthBefore(c, n) ==
    IF n = 1 \/ c[n - 1].kind = "Newline" THEN 0
    ELSE WidthBefore(c, n - 1) + Len(c[n - 1].text) * c[n - 1].size_ratio

SpanCol(b, n) == b.start_col + WidthBefore(b.contents, n)

\* Vertical offset of a Span of ratio r in a line of dominant ratio m
AlignOffset(al, m, r) ==
    IF al = "Top" THEN 0 ELSE IF al = "Middle" THEN (m - r) \div 2 ELSE m - r

\* Row at which the Span at position n is placed
SpanRow(b, n) ==
    LineRow(b, LineOf(b.contents, n))
      + AlignOffset(b.align, DominantRatio(b.contents, LineOf(b.contents, n)),
                    b.contents[n].size_ratio)

\* The arguments of the call a frame is executing
ArgsOf(f) == Block(f.contents, f.start_col, f.start_row, f.line_spacing_ratio, f.align)

\* A call is laying out a line
InLine(f) == f.pc \in {"measure", "place"}

\* A call is about to hand a Span to add_single_span
AtPlace(f) == f.pc = "place" /\ f.next_span <= Len(f.spans_in_line)

\* Position in contents of the Span about to be placed
PlacePos(f) == f.current_content_index + f.next_span

----------------------------------------------------------------------------
\* C1: a Span with an unregistered style makes the call fail and leaves none
\* of the block's instructions in the output sequence, also when Spans with
\* registered styles precede it.  Stated as: a call never returns normally
\* over a Span whose style is missing, and a failed call leaves the output
\* sequence as it was when the call began.
C1_NoOutputOnStyleMiss ==
    \A p \in Pages :
        /\ frame[p].pc = "done" =>
              \A n \in 1..Len(frame[p].contents) :
                  frame[p].contents[n].kind = "Span" => StyleLoaded(frame[p].contents[n])
        /\ frame[p].pc = "panicked" => all_pages_ops[p] = frame[p].ops0

----------------------------------------------------------------------------
\* C2: the row at which line k is laid out is start_row plus the sum over the
\* lines j < k of max_ratio(j) * line_spacing_ratio, max_ratio(j) being the
\* dominant ratio of line j alone; between lines and on return current_row
\* is that sum over the lines closed so far.
C2_LineRow ==
    \A p \in Pages :
        LET f == frame[p]
        IN /\ InLine(f) =>
                f.current_row = LineRow(ArgsOf(f), NewlineCount(f.contents, f.current_content_index))
           /\ f.pc \in {"loop", "done"} =>
                f.current_row = LineRow(ArgsOf(f), LinesClosed(f.contents, f.current_content_index))

\* [Span(ratio 2.0), Newline, Span(ratio 1.0)], line spacing 1.2, start row 2:
\* the second line is being placed at row 4.4
C2_Witness ==
    \E p \in Pages :
        LET f == frame[p]
        IN /\ AtPlace(f)
           /\ Len(f.contents) = 3
           /\ f.contents[1].kind = "Span" /\ f.contents[1].size_ratio = 2 * One
           /\ f.contents[2].kind = "Newline"
           /\ f.contents[3].kind = "Span" /\ f.contents[3].size_ratio = One
           /\ f.line_spacing_ratio = 120 /\ f.start_row = 2 * One
           /\ f.current_content_index = 2
           /\ f.current_row = 440

----------------------------------------------------------------------------
\* C3: the first Span of every line is placed at column start_col, and the
\* n-th Span of a line at start_col plus the sum of character count * ratio
\* over the Spans before it in the same line; the cursor x of every group
\* emitted is that column in points.
C3_Column ==
    \A p \in Pages :
        LET f == frame[p]
            emitted == (Len(all_pages_ops[p]) - Len(f.ops0)) \div GroupLen
        IN /\ AtPlace(f) => f.current_col = SpanCol(ArgsOf(f), PlacePos(f))
           /\ \A n \in 1..Len(f.contents) :
                (f.contents[n].kind = "Span" /\ SpanCount(f.contents, n) <= emitted) =>
                    all_pages_ops[p][Len(f.ops0) + GroupLen * (SpanCount(f.contents, n) - 1) + 3].x
                      = (SpanCol(ArgsOf(f), n) * config.base_font_size) \div One

\* A Span follows a multi-byte Span in its line, in a line that is not the
\* first, and has been emitted
C3_Witness ==
    \E p \in Pages :
        LET f == frame[p]
        IN /\ f.pc = "done"
           /\ Len(f.contents) = 3
           /\ f.contents[1].kind = "Newline"
           /\ f.contents[2].kind = "Span" /\ f.contents[2].text = <<3, 3, 1>>
           /\ f.contents[3].kind = "Span"
           /\ Len(all_pages_ops[p]) = Len(f.ops0) + 2 * GroupLen
           /\ all_pages_ops[p][Len(f.ops0) + GroupLen + 3].x
                = ((f.start_col + 3 * f.contents[2].size_ratio) * config.base_font_size) \div One

----------------------------------------------------------------------------
\* C4: the grid row passed to the placer for a Span is the row of its line
\* plus 0 under Top, (max_ratio - size_ratio) / 2 under Middle and
\* max_ratio - size_ratio under Bottom, max_ratio being the dominant ratio
\* of the Span's own line.
C4_AlignedRow ==
    \A p \in Pages :
        LET f == frame[p]
            span == f.spans_in_line[f.next_span]
        IN AtPlace(f) =>
             /\ span = f.contents[PlacePos(f)]
             /\ PlaceRow(f, span) = SpanRow(ArgsOf(f), PlacePos(f))
             /\ f.align = "Top" => PlaceRow(f, span) = f.current_row

\* Two Spans of ratios r1 < r2 on one line: the smaller one is about to be
\* placed (r2 - r1) / 2 below the line's row under Middle, r2 - r1 under Bottom
C4_Witness ==
    \E p \in Pages :
        LET f == frame[p]
        IN /\ AtPlace(f)
           /\ Len(f.spans_in_line) = 2
           /\ f.next_span = 1
           /\ f.spans_in_line[1].size_ratio = One
           /\ f.spans_in_line[2].size_ratio = 2 * One
           /\ f.align = "Middle"
           /\ PlaceRow(f, f.spans_in_line[1]) = f.current_row + One \div 2

----------------------------------------------------------------------------
\* C5: add_single_span, given grid position (col, row), emits a text cursor
\* at x = col * base_font_size and
\* y = page_height - row * base_font_size - base_font_size * size_ratio, and
\* sets the font size to base_font_size * size_ratio.
C5_Anchor ==
    [][ \A p \in Pages :
          all_pages_ops'[p] # all_pages_ops[p] =>
            LET f == frame[p]
                span == f.spans_in_line[f.next_span]
                col == f.current_col
                row == PlaceRow(f, span)
                base == config.base_font_size
                g == SubSeq(all_pages_ops'[p], Len(all_pages_ops[p]) + 1, Len(all_pages_ops'[p]))
            IN /\ Len(g) = GroupLen
               /\ g[3] = [op |-> "SetTextCursor",
                          x |-> (col * base) \div One,
                          y |-> config.page_height_pt - (row * base) \div One
                                  - (base * span.size_ratio) \div One]
               /\ g[4].op = "SetFontSize"
               /\ g[4].size = (base * span.size_ratio) \div One ]_vars

\* A Span of ratio 1.0 placed at (0, 0) with base size 24 and page height 432
\* is anchored at x = 0, y = 408
C5_Witness ==
    \E p \in Pages :
        LET f == frame[p]
        IN /\ f.start_col = 0 /\ f.start_row = 0
           /\ f.contents # <<>>
           /\ f.contents[1].kind = "Span" /\ f.contents[1].size_ratio = One
           /\ config.base_font_size = 24 * One /\ config.page_height_pt = 432 * One
           /\ Len(all_pages_ops[p]) >= Len(f.ops0) + GroupLen
           /\ all_pages_ops[p][Len(f.ops0) + 3] = [op |-> "SetTextCursor", x |-> 0, y |-> 408 * One]

----------------------------------------------------------------------------
\* The line a call is laying out began with a Newline: it has zero Spans
EmptyLine(f) ==
    /\ InLine(f)
    /\ f.contents[f.current_content_index + 1].kind = "Newline"

\* C6: every line with zero Spans advances current_row by exactly
\* 1.0 * line_spacing_ratio and emits no placement instruction; the content
\* sequence [Newline] leaves the output sequence unchanged and ends with
\* current_row = start_row + line_spacing_ratio.
C6_BlankLine ==
    /\ [][ \A p \in Pages :
             EmptyLine(frame[p]) =>
               /\ all_pages_ops'[p] = all_pages_ops[p]
               /\ frame'[p].pc = "loop" =>
                    frame'[p].current_row
                      = frame[p].current_row + (One * frame[p].line_spacing_ratio) \div One ]_vars
    /\ [](\A p \in Pages :
            (frame[p].pc = "done" /\ frame[p].contents = <<Newline>>) =>
               /\ all_pages_ops[p] = frame[p].ops0
               /\ frame[p].current_row = frame[p].start_row + frame[p].line_spacing_ratio)

\* [Newline] laid out with line spacing 1.2 on a page that already held
\* instructions
C6_Witness ==
    \E p \in Pages :
        /\ frame[p].pc = "done"
        /\ frame[p].contents = <<Newline>>
        /\ frame[p].line_spacing_ratio = 120
        /\ frame[p].current_row = frame[p].start_row + 120
        /\ all_pages_ops[p] # <<>>

----------------------------------------------------------------------------
\* C7: each Newline accounts for exactly one row advance: the number of row
\* advances is the number of Newline items plus one if the last item is a
\* Span, the Newline that closes a line being consumed by that line; N
\* Newlines and no Spans advance current_row N times by line_spacing_ratio.
C7_OneAdvancePerNewline ==
    \A p \in Pages :
        LET f == frame[p]
            c == f.contents
            idx == f.current_content_index
        IN /\ f.pc \in {"loop", "done"} =>
                /\ f.advances = LinesClosed(c, idx)
                /\ (0 < idx /\ idx < Len(c)) => c[idx].kind = "Newline"
           /\ f.pc = "done" =>
                /\ f.advances = LineCount(c)
                /\ (\A n \in 1..Len(c) : c[n].kind = "Newline") =>
                      f.current_row = f.start_row + Len(c) * f.line_spacing_ratio

\* Two Newlines and a closing Span: three row advances
C7_Witness ==
    \E p \in Pages :
        LET f == frame[p]
        IN /\ f.pc = "done"
           /\ Len(f.contents) = 3
           /\ f.contents[1] = Newline /\ f.contents[2] = Newline
           /\ f.contents[3].kind = "Span"
           /\ f.advances = 3

----------------------------------------------------------------------------
----------------------------------------------------------------------------
\* All Spans of a content sequence have registered styles
AllLoaded(c) == \A n \in 1..Len(c) : c[n].kind = "Span" => StyleLoaded(c[n])

\* C9: for every content sequence whose Spans have registered styles the
\* call terminates with scan position = sequence length: each iteration of
\* the line loop strictly increases current_content_index and never moves it
\* past contents.len(), and an empty sequence terminates at once with no row
\* advance and no instruction.
C9_Terminates ==
    /\ [][ \A p \in Pages :
             (frame[p].pc = "place" /\ frame'[p].pc = "loop") =>
                /\ frame'[p].current_content_index > frame[p].current_content_index
                /\ frame'[p].current_content_index <= Len(frame[p].contents) ]_vars
    /\ [](\A p \in Pages :
            /\ frame[p].current_content_index <= Len(frame[p].contents)
            /\ frame[p].pc = "done" =>
                  frame[p].current_content_index = Len(frame[p].contents)
            /\ (frame[p].pc = "done" /\ frame[p].contents = <<>>) =>
                  /\ frame[p].advances = 0
                  /\ frame[p].current_row = frame[p].start_row
                  /\ all_pages_ops[p] = frame[p].ops0)
    /\ [][ \A p \in Pages :
             (frame[p].pc = "loop" /\ frame[p].contents = <<>>) => frame'[p].pc = "done" ]_vars
    /\ \A p \in 1..NumPages :
          (p \in Pages /\ frame[p].pc = "loop" /\ AllLoaded(frame[p].contents))
             ~> (p \in Pages /\ frame[p].pc = "done")

\* A three-line call has returned with every item scanned
C9_Witness ==
    \E p \in Pages :
        /\ frame[p].pc = "done"
        /\ Len(frame[p].contents) = 3
        /\ frame[p].advances = 3
        /\ frame[p].current_content_index = 3

----------------------------------------------------------------------------
\* The instructions a block yields when laid out alone: one group per Span,
\* in content order, each at the column and row its own line gives it
RECURSIVE LayoutUpTo(_, _)
LayoutUpTo(b, n) ==
    IF n = 0 THEN <<>>
    ELSE LayoutUpTo(b, n - 1)
           \o (IF b.contents[n].kind = "Span"
               THEN NewOps(config, fonts[b.contents[n].style], b.contents[n],
                           SpanCol(b, n), SpanRow(b, n))
               ELSE <<>>)

Layout(b) == LayoutUpTo(b, Len(b.contents))

\* A single call on one page returns with the page's earlier instructions
\* followed by Layout of its arguments (an invariant of Spec)
LayoutAlone ==
    \A p \in Pages :
        frame[p].pc = "done" => all_pages_ops[p] = frame[p].ops0 \o Layout(ArgsOf(frame[p]))

\* C10: no cursor or instruction state is shared across layout calls: under
\* every interleaving of the calls on different pages each call yields the
\* instructions its block yields alone, and a call that follows another on
\* the same page leaves the first block's instructions followed by exactly
\* those the second block yields alone.
C10_NoSharedState ==
    \A p \in Pages :
        LET f == frame[p]
        IN /\ f.pc = "done" => all_pages_ops[p] = f.ops0 \o Layout(ArgsOf(f))
           /\ f.pc # "idle" =>
                /\ Len(f.ops0) <= Len(all_pages_ops[p])
                /\ SubSeq(all_pages_ops[p], 1, Len(f.ops0)) = f.ops0
           /\ f.calls = 1 => f.ops0 = <<>>

\* Page p has returned from its second call while the call on another page
\* is in the middle of a line
C10_Witness ==
    \E p \in Pages : \E q \in Pages :
        /\ p # q
        /\ frame[p].pc = "done" /\ frame[p].calls = 2
        /\ frame[p].ops0 # <<>>
        /\ Len(all_pages_ops[p]) > Len(frame[p].ops0)
        /\ frame[q].pc = "place" /\ frame[q].next_span = 2

----------------------------------------------------------------------------
\* C11: draw_text_block is append-only and places every Span exactly once:
\* at every step the instructions already in the output sequence remain an
\* unchanged prefix, and on completion exactly one placement group has been
\* appended per Span of the content sequence, in content order, with none for
\* a Newline; the content sequence and the fonts mapping are left unchanged.
C11_AppendOnly ==
    /\ [][ /\ fonts' = fonts
           /\ \A p \in Pages :
                /\ Len(all_pages_ops[p]) <= Len(all_pages_ops'[p])
                /\ SubSeq(all_pages_ops'[p], 1, Len(all_pages_ops[p])) = all_pages_ops[p]
                /\ frame[p].pc \notin {"idle", "done"} =>
                      frame'[p].contents = frame[p].contents ]_vars
    /\ [](\A p \in Pages :
            LET f == frame[p]
                c == f.contents
                ops == all_pages_ops[p]
                first(n) == Len(f.ops0) + GroupLen * (SpanCount(c, n) - 1)
            IN f.pc = "done" =>
                 /\ Len(ops) = Len(f.ops0) + GroupLen * SpanCount(c, Len(c))
                 /\ SubSeq(ops, 1, Len(f.ops0)) = f.ops0
                 /\ \A n \in 1..Len(c) :
                        c[n].kind = "Span" =>
                          /\ ops[first(n) + 1].op = "StartTextSection"
                          /\ ops[first(n) + 5]
                               = [op |-> "WriteText", text |-> c[n].text,
                                  font |-> fonts[c[n].style]]
                          /\ ops[first(n) + GroupLen].op = "EndTextSection")

\* A call over two Spans and a Newline has returned on a page that already
\* held instructions, two groups added behind them
C11_Witness ==
    \E p \in Pages :
        LET f == frame[p]
        IN /\ f.pc = "done"
           /\ f.ops0 # <<>>
           /\ Len(f.contents) = 3
           /\ SpanCount(f.contents, 3) = 2
           /\ f.contents[2] = Newline
           /\ Len(all_pages_ops[p]) = Len(f.ops0) + 2 * GroupLen
           /\ SubSeq(all_pages_ops[p], 1, Len(f.ops0)) = f.ops0

----------------------------------------------------------------------------
\* The line a call is laying out
CurrentLine(f) == NewlineCount(f.contents, f.current_content_index)

\* C12: the dominant ratio used for a line's offsets and for its row advance
\* is max(1.0, maximum size_ratio of the Spans of that line only), recomputed
\* from 1.0 at the start of every line: a line whose Spans all have
\* size_ratio < 1.0 has dominant ratio 1.0 (Bottom offset 1.0 - size_ratio,
\* row advance line_spacing_ratio), and a Span of another line never changes
\* the offsets or the advance of this line.
C12_DominantRatio ==
    \A p \in Pages :
        LET f == frame[p]
            c == f.contents
            line == SpansOfLine(c, CurrentLine(f))
            small == \A n \in line : c[n].size_ratio < One
        IN /\ f.pc = "measure" /\ f.i = f.current_content_index =>
                f.max_font_size_ratio = One
           /\ f.pc = "place" =>
                /\ f.max_font_size_ratio = DominantRatio(c, CurrentLine(f))
                /\ \A n \in line : c[n].size_ratio <= f.max_font_size_ratio
                /\ f.max_font_size_ratio >= One
                /\ f.max_font_size_ratio > One =>
                      \E n \in line : c[n].size_ratio = f.max_font_size_ratio
                /\ RowAdvance(f) = (DominantRatio(c, CurrentLine(f)) * f.line_spacing_ratio) \div One
                /\ small =>
                      /\ f.max_font_size_ratio = One
                      /\ RowAdvance(f) = f.line_spacing_ratio
           /\ (AtPlace(f) /\ f.align = "Bottom" /\ small) =>
                PlaceRow(f, f.spans_in_line[f.next_span])
                  = f.current_row + (One - f.spans_in_line[f.next_span].size_ratio)

\* The second line holds one Span of ratio 0.5 and follows a line with a
\* Span of ratio 2.0: under Bottom it is about to be placed 0.5 below the
\* line's row, the dominant ratio being 1.0
C12_Witness ==
    \E p \in Pages :
        LET f == frame[p]
        IN /\ AtPlace(f)
           /\ f.align = "Bottom"
           /\ Len(f.contents) = 3
           /\ f.contents[1].kind = "Span" /\ f.contents[1].size_ratio = 2 * One
           /\ f.contents[2] = Newline
           /\ f.contents[3].kind = "Span" /\ f.contents[3].size_ratio = One \div 2
           /\ f.current_content_index = 2
           /\ f.max_font_size_ratio = One
           /\ PlaceRow(f, f.spans_in_line[1]) = f.current_row + One \div 2

----------------------------------------------------------------------------
\* C13: for positive size ratios and every alignment each placed Span stays
\* inside the vertical band of its line: its placement row r satisfies
\* line_row <= r and r + size_ratio <= line_row + max_ratio, with
\* r + size_ratio = line_row + max_ratio under Bottom.
C13_InsideBand ==
    \A p \in Pages :
        LET f == frame[p]
            span == f.spans_in_line[f.next_span]
            r == PlaceRow(f, span)
            line_row == LineRow(ArgsOf(f), CurrentLine(f))
            max_ratio == DominantRatio(f.contents, CurrentLine(f))
        IN AtPlace(f) =>
             /\ span.size_ratio > 0
             /\ line_row <= r
             /\ r + span.size_ratio <= line_row + max_ratio
             /\ f.align = "Bottom" => r + span.size_ratio = line_row + max_ratio

\* Under Middle a Span of ratio 1.0 in a line of dominant ratio 2.0 is about
\* to be placed strictly inside the band of a line that is not the first
C13_Witness ==
    \E p \in Pages :
        LET f == frame[p]
            span == f.spans_in_line[f.next_span]
            r == PlaceRow(f, span)
        IN /\ AtPlace(f)
           /\ f.align = "Middle"
           /\ f.current_content_index > 0
           /\ span.size_ratio = One
           /\ f.max_font_size_ratio = 2 * One
           /\ f.current_row < r
           /\ r + span.size_ratio < f.current_row + f.max_font_size_ratio

====
